---------------------------- MODULE Spec2Model ----------------------------
(***************************************************************************)
(* Model of pdf_to_excel: the extraction-and-reconciliation pipeline of    *)
(* processor.py and the job state machine of app.py.                       *)
(*                                                                         *)
(* Conventions.  A cell of a table is a string or the missing marker NA    *)
(* (pandas <NA>/NaN).  A number is a record [nan, v]: v counts hundredths  *)
(* (1 = 0.01), nan marks NaN.  In strings the character "~" stands for the *)
(* no-break space U+00A0, and log lines are written in ASCII.  Time stamps *)
(* of log lines and the random part of file names are left out.            *)
(***************************************************************************)
EXTENDS Integers, Sequences, FiniteSets, TLC

VARIABLES
  arg,      \* the input of the pure function under check
  ret,      \* its result
  State,    \* app.py STATE: running, logs, result_file, job_id, uploaded_files
  disk,     \* the files of tmp_uploads and tmp_results: path -> content
  reqs,     \* the request threads: id -> [op, pc, ...]
  workers   \* the _worker threads: id -> [pc, file_paths, ...], process_pdfs inlined

vars == <<arg, ret, State, disk, reqs, workers>>

-----------------------------------------------------------------------------
(* Strings *)

NA == "<NA>"
NBSP == "~"

Ch(s, i) == SubSeq(s, i, i)

\* the characters of the model's strings in code point order
CharOrder == "\t ,-.0123456789<>ANabcdefghijklmnopqrstuvwxyz~"

CharIdx(c) == CHOOSE i \in 1..Len(CharOrder) : Ch(CharOrder, i) = c

IsSpace(c) == c \in {" ", "\t", NBSP}

IsDigit(c) == c \in {"0", "1", "2", "3", "4", "5", "6", "7", "8", "9"}

DigitVal(c) == CharIdx(c) - CharIdx("0")

RECURSIVE StrLess(_, _)
\* Python's str <: lexicographic by code point, a proper prefix first
StrLess(a, b) ==
  IF Len(b) = 0 THEN FALSE
  ELSE IF Len(a) = 0 THEN TRUE
  ELSE IF Ch(a, 1) = Ch(b, 1) THEN StrLess(Tail(a), Tail(b))
  ELSE CharIdx(Ch(a, 1)) < CharIdx(Ch(b, 1))

RECURSIVE LStrip(_)
LStrip(s) == IF Len(s) > 0 /\ IsSpace(Ch(s, 1)) THEN LStrip(Tail(s)) ELSE s

RECURSIVE RStrip(_)
RStrip(s) ==
  IF Len(s) > 0 /\ IsSpace(Ch(s, Len(s))) THEN RStrip(SubSeq(s, 1, Len(s) - 1)) ELSE s

\* str.strip()
Strip(s) == RStrip(LStrip(s))

RECURSIVE CollapseWs(_)
\* re.sub(r"\s+", " ", s)
CollapseWs(s) ==
  IF Len(s) = 0 THEN ""
  ELSE IF IsSpace(Ch(s, 1))
       THEN " " \o CollapseWs(LStrip(s))
       ELSE Ch(s, 1) \o CollapseWs(Tail(s))

RECURSIVE ReplaceChar(_, _, _)
\* str.replace(old, new) for a one-character old
ReplaceChar(s, old, new) ==
  IF Len(s) = 0 THEN ""
  ELSE (IF Ch(s, 1) = old THEN new ELSE Ch(s, 1)) \o ReplaceChar(Tail(s), old, new)

FillNa(c) == IF c = NA THEN "" ELSE c

EmptyToNa(s) == IF s = "" THEN NA ELSE s

-----------------------------------------------------------------------------
(* Field normalisation: clean_text_series, clean_code_series,              *)
(* _to_number_series, applied to one cell                                  *)

clean_text(c) == EmptyToNa(Strip(CollapseWs(FillNa(c))))

StripDotZero(s) ==
  IF Len(s) >= 2 /\ SubSeq(s, Len(s) - 1, Len(s)) = ".0"
  THEN SubSeq(s, 1, Len(s) - 2)
  ELSE s

clean_code(c) == EmptyToNa(StripDotZero(Strip(FillNa(c))))

NaN == [nan |-> TRUE, v |-> 0]

Num(n) == [nan |-> FALSE, v |-> n]

RECURSIVE DigitsVal(_)
\* the value of a string of digits
DigitsVal(s) ==
  IF Len(s) = 0 THEN 0
  ELSE 10 * DigitsVal(SubSeq(s, 1, Len(s) - 1)) + DigitVal(Ch(s, Len(s)))

AllDigits(s) == \A i \in 1..Len(s) : IsDigit(Ch(s, i))

\* the fraction digits d1 d2 ... as hundredths (digits after the second are
\* below the model's unit)
FracVal(s) ==
  (IF Len(s) >= 1 THEN 10 * DigitVal(Ch(s, 1)) ELSE 0)
  + (IF Len(s) >= 2 THEN DigitVal(Ch(s, 2)) ELSE 0)

\* pd.to_numeric(s, errors="coerce") on [sign] digits [. digits]
ParseUnsigned(s) ==
  LET dots == {i \in 1..Len(s) : Ch(s, i) = "."}
  IN IF Len(s) = 0 THEN NaN
     ELSE IF dots = {}
          THEN (IF AllDigits(s) THEN Num(100 * DigitsVal(s)) ELSE NaN)
          ELSE IF Cardinality(dots) > 1 THEN NaN
          ELSE LET d == CHOOSE i \in dots : TRUE
                   ip == SubSeq(s, 1, d - 1)
                   fp == SubSeq(s, d + 1, Len(s))
               IN IF AllDigits(ip) /\ AllDigits(fp) /\ Len(ip) + Len(fp) > 0
                  THEN Num(100 * DigitsVal(ip) + FracVal(fp))
                  ELSE NaN

to_numeric(s) ==
  IF s = NA THEN NaN
  ELSE IF Len(s) > 0 /\ Ch(s, 1) = "-"
       THEN LET u == ParseUnsigned(Tail(s))
            IN IF u.nan THEN NaN ELSE Num(0 - u.v)
       ELSE ParseUnsigned(s)

to_number(c) ==
  to_numeric(ReplaceChar(ReplaceChar(ReplaceChar(FillNa(c), NBSP, " "), " ", ""), ",", "."))

-----------------------------------------------------------------------------
(* Sequences *)

RECURSIVE SumSeq(_)
SumSeq(s) == IF Len(s) = 0 THEN 0 ELSE Head(s) + SumSeq(Tail(s))

RECURSIVE Flatten(_)
Flatten(ss) == IF Len(ss) = 0 THEN <<>> ELSE Head(ss) \o Flatten(Tail(ss))

Range(s) == {s[i] : i \in 1..Len(s)}

\* the elements of s, each once, in the order of first appearance
Unique(s) ==
  LET idx == SelectSeq([i \in 1..Len(s) |-> i],
                       LAMBDA i : \A j \in 1..(i - 1) : s[j] # s[i])
  IN [k \in 1..Len(idx) |-> s[idx[k]]]

\* s sorted by the strict order Less, equal elements in their order in s (stable)
SortBy(s, Less(_, _)) ==
  LET n == Len(s)
      before(j, i) == Less(s[j], s[i]) \/ (~Less(s[i], s[j]) /\ j < i)
      rank(i) == Cardinality({j \in 1..n : before(j, i)}) + 1
  IN [k \in 1..n |-> s[CHOOSE i \in 1..n : rank(i) = k]]

\* a number's value in a sum with skipna=True
NumOrZero(x) == IF x.nan THEN 0 ELSE x.v

\* Series.sum(skipna=True): NaN counts 0, the sum of nothing is 0
SumSkipNa(xs) == Num(SumSeq([i \in 1..Len(xs) |-> NumOrZero(xs[i])]))

\* s.dropna().iloc[0] if len(s.dropna()) else pd.NA
FirstNonNa(s) ==
  LET d == SelectSeq(s, LAMBDA c : c # NA)
  IN IF Len(d) > 0 THEN d[1] ELSE NA

-----------------------------------------------------------------------------
(* Identifier Extractor.  A document's text is a sequence of tokens        *)
(* separated by white space: [t |-> "label"] is the phrase of DOCNO_RE_1,  *)
(* "num" a run of digits s, "date" a date s = dd.mm.yyyy, "word" other     *)
(* text without digits.                                                    *)

None == "<None>"

\* the last (at most 9) digits of a token that ends in digits
TrailingDigits(tok) ==
  IF tok.t = "num" THEN SubSeq(tok.s, IF Len(tok.s) > 9 THEN Len(tok.s) - 8 ELSE 1, Len(tok.s))
  ELSE SubSeq(tok.s, 7, 10)

\* the first run of 4 to 9 digits in a token, or None
LongDigits(tok) ==
  IF tok.t = "num" /\ Len(tok.s) >= 4 THEN SubSeq(tok.s, 1, IF Len(tok.s) > 9 THEN 9 ELSE Len(tok.s))
  ELSE IF tok.t = "date" THEN SubSeq(tok.s, 7, 10)
  ELSE None

extract_doc_number(text) ==
  LET n == Len(text)
      labels == {i \in 1..n : text[i].t = "label"}
      first == CHOOSE i \in labels : \A j \in labels : i <= j
      m1 == IF labels = {} THEN {} ELSE {i \in (first + 1)..n : LongDigits(text[i]) # None}
      m2 == {i \in 1..(n - 1) : text[i].t \in {"num", "date"} /\ text[i + 1].t = "date"}
  IN IF m1 # {} THEN LongDigits(text[CHOOSE i \in m1 : \A j \in m1 : i <= j])
     ELSE IF m2 # {} THEN TrailingDigits(text[CHOOSE i \in m2 : \A j \in m2 : i <= j])
     ELSE None

-----------------------------------------------------------------------------
(* Table Selector.  A raw table is [ncols, rows], rows a sequence of rows  *)
(* of ncols cells; the chosen table is [columns, rows].                    *)

\* a DataFrame is [none, columns, rows]; none marks Python's None
NoDf == [none |-> TRUE, columns |-> <<>>, rows |-> <<>>]

\* slice_rules.get(i, default_slice) for the 0-based position i: (start, -end)
slice_rule(i) == IF i = 2 THEN <<1, 2>> ELSE <<3, 2>>

\* tbl.iloc[start:-end] of a table with more than start + end rows
ILoc(rows, start, end) == SubSeq(rows, start + 1, Len(rows) - end)

tbl_empty(tbl) == Len(tbl.rows) = 0 \/ tbl.ncols = 0

\* the test of one candidate with the header row not counted among the two rows
trimmed_counting_data_rows(tables, i) ==
  LET tbl == tables[i]
      df == ILoc(tbl.rows, slice_rule(i - 1)[1], slice_rule(i - 1)[2])
  IN IF tbl_empty(tbl) THEN <<>>
     ELSE IF Len(tbl.rows) <= 5 \/ tbl.ncols <= 2 THEN <<>>
     ELSE IF Len(df) < 3 THEN <<>>
     ELSE df

\* the test of one candidate: its trimmed rows, or <<>> when it is passed over
trimmed(tables, i) ==
  LET tbl == tables[i]
      df == ILoc(tbl.rows, slice_rule(i - 1)[1], slice_rule(i - 1)[2])
  IN IF tbl_empty(tbl) THEN <<>>
     ELSE IF Len(tbl.rows) <= 5 \/ tbl.ncols <= 2 THEN <<>>
     ELSE IF Len(df) < 2 THEN <<>>
     ELSE df

_choose_and_clean_table(tables) ==
  LET ok == {i \in 1..Len(tables) : trimmed(tables, i) # <<>>}
  IN IF ok = {} THEN NoDf
     ELSE LET i == CHOOSE k \in ok : \A j \in ok : k <= j
              df == trimmed(tables, i)
          IN [none |-> FALSE, columns |-> df[1], rows |-> Tail(df)]

extract_table(doc) == _choose_and_clean_table(doc.tables)

-----------------------------------------------------------------------------
(* Document Table Builder *)

KOD == "kod"
NAIMENOVANIE == "naimenovanie"
ITOGO_STROKA == "ITOGO_STROKA"
ITOGO_STOLBEC == "ITOGO_STOLBEC"

required == <<"2", "3", "10">>

\* the positions of the columns df.loc[:, required] selects, in its order
loc_required(columns) ==
  Flatten([r \in 1..Len(required) |->
             SelectSeq([i \in 1..Len(columns) |-> i], LAMBDA i : columns[i] = required[r])])

\* lines 102-112: the three columns renamed and cleaned, rows without code dropped,
\* the value made a number
cleaned_rows(df) ==
  LET at == loc_required(df.columns)
      rows == [i \in 1..Len(df.rows) |->
                 [name |-> clean_text(df.rows[i][at[1]]),
                  code |-> clean_code(df.rows[i][at[2]]),
                  val |-> clean_text(df.rows[i][at[3]])]]
      kept == SelectSeq(rows, LAMBDA r : r.code # NA)
  IN [i \in 1..Len(kept) |-> [kept[i] EXCEPT !.val = to_number(kept[i].val)]]

\* the rows sorted by code but not merged
group_by_code_keeping_rows(rows) ==
  SortBy(rows, LAMBDA a, b : StrLess(a.code, b.code))

\* df.groupby("kod", as_index=False).agg({name: first non-missing, value: "sum"}):
\* one row per key, the keys sorted
group_by_code(rows) ==
  LET keys == SortBy(Unique([i \in 1..Len(rows) |-> rows[i].code]), StrLess)
      grp(k) == SelectSeq(rows, LAMBDA r : r.code = k)
  IN [j \in 1..Len(keys) |->
        [code |-> keys[j],
         name |-> FirstNonNa([i \in 1..Len(grp(keys[j])) |-> grp(keys[j])[i].name]),
         val |-> SumSkipNa([i \in 1..Len(grp(keys[j])) |-> grp(keys[j])[i].val])]]

\* build_doc_df that skips a table without the required columns instead of raising
build_doc_df_skipping(doc) ==
  LET doc_number == extract_doc_number(doc.text)
      df == extract_table(doc)
  IN IF doc_number = None
     THEN [raised |-> FALSE, df |-> NoDf, docno |-> None, tables_read |-> FALSE]
     ELSE IF df.none \/ Len(loc_required(df.columns)) # 3
     THEN [raised |-> FALSE, df |-> NoDf, docno |-> doc_number, tables_read |-> TRUE]
     ELSE [raised |-> FALSE, tables_read |-> TRUE,
           df |-> [none |-> FALSE,
                   columns |-> <<KOD, NAIMENOVANIE, doc_number>>,
                   rows |-> group_by_code(cleaned_rows(df))],
           docno |-> doc_number]

\* (df, doc_number), or raised: the ValueError of line 100 or of line 103.
\* tables_read records whether extract_table was called.
build_doc_df(doc) ==
  LET doc_number == extract_doc_number(doc.text)
      df == extract_table(doc)
      missing == SelectSeq(required, LAMBDA c : c \notin Range(df.columns))
  IN IF doc_number = None
     THEN [raised |-> FALSE, df |-> NoDf, docno |-> None, tables_read |-> FALSE]
     ELSE IF df.none
     THEN [raised |-> FALSE, df |-> NoDf, docno |-> doc_number, tables_read |-> TRUE]
     ELSE IF Len(missing) > 0
     THEN [raised |-> TRUE, df |-> NoDf, docno |-> doc_number, tables_read |-> TRUE]
     ELSE IF Len(loc_required(df.columns)) # 3
     THEN [raised |-> TRUE, df |-> NoDf, docno |-> doc_number, tables_read |-> TRUE]
     ELSE [raised |-> FALSE, tables_read |-> TRUE,
           df |-> [none |-> FALSE,
                   columns |-> <<KOD, NAIMENOVANIE, doc_number>>,
                   rows |-> group_by_code(cleaned_rows(df))],
           docno |-> doc_number]

-----------------------------------------------------------------------------
(* Totals Calculator.  The rows of a reconciled table are                  *)
(* [name, code, vals], vals the cells of the columns after the first two.  *)

\* the order of sort_values(by=["_code_num", "kod"], na_position="last") on
\* rows [num, code, ...], num the row's _code_num
code_less(a, b) ==
  LET str_less == IF b.code = NA THEN a.code # NA
                  ELSE IF a.code = NA THEN FALSE
                  ELSE StrLess(a.code, b.code)
  IN IF a.num.nan /\ b.num.nan THEN str_less
     ELSE IF a.num.nan THEN FALSE
     ELSE IF b.num.nan THEN TRUE
     ELSE a.num.v < b.num.v \/ (a.num.v = b.num.v /\ str_less)

\* lines 136-139: the rows sorted by code, as a number where it is one
sort_by_code(rows) ==
  LET keyed == [i \in 1..Len(rows) |->
                  [num |-> to_numeric(rows[i].code), code |-> rows[i].code, row |-> rows[i]]]
      sorted == SortBy(keyed, code_less)
  IN [i \in 1..Len(rows) |-> sorted[i].row]

df_empty(df) == Len(df.rows) = 0 \/ Len(df.columns) = 0

\* a row total that a missing cell makes missing (skipna=False)
row_total_propagating(vals) ==
  IF \E c \in 1..Len(vals) : vals[c].nan THEN NaN ELSE SumSkipNa(vals)

\* line 144: num.sum(axis=1, skipna=True) for one row
row_total(vals) == SumSkipNa(vals)

\* lines 136-151: the rows sorted, the total column and the totals row added
with_totals(final_df) ==
  LET df == sort_by_code(final_df.rows)
      doc_cols == SelectSeq(final_df.columns, LAMBDA c : c \notin {NAIMENOVANIE, KOD})
      totals == [i \in 1..Len(df) |-> row_total(df[i].vals)]
      with_total == [i \in 1..Len(df) |-> [df[i] EXCEPT !.vals = @ \o <<totals[i]>>]]
      col_total(c) == SumSkipNa([i \in 1..Len(df) |-> df[i].vals[c]])
      totals_row == [name |-> ITOGO_STOLBEC, code |-> NA,
                     vals |-> [c \in 1..Len(doc_cols) |-> col_total(c)]
                              \o <<SumSkipNa(totals)>>]
  IN [none |-> FALSE,
      columns |-> final_df.columns \o <<ITOGO_STROKA>>,
      rows |-> with_total \o <<totals_row>>]

\* add_totals without the early return for an empty table
add_totals_of_empty_too(final_df) ==
  IF final_df.none THEN final_df ELSE with_totals(final_df)

add_totals(final_df) ==
  IF final_df.none \/ df_empty(final_df) THEN final_df
  ELSE with_totals(final_df)

-----------------------------------------------------------------------------
(* Batch Reconciler *)

\* the last non-missing element instead of the first
LastNonNa(s) ==
  LET d == SelectSeq(s, LAMBDA c : c # NA)
  IN IF Len(d) > 0 THEN d[Len(d)] ELSE NA

\* names_of keeping the last non-missing name of each code
names_of_last(doc_dfs) ==
  LET all == Flatten([d \in 1..Len(doc_dfs) |-> doc_dfs[d].rows])
      kept == SelectSeq(all, LAMBDA r : r.code # NA)
      keys == SortBy(Unique([i \in 1..Len(kept) |-> kept[i].code]), StrLess)
      grp(k) == SelectSeq(kept, LAMBDA r : r.code = k)
  IN [j \in 1..Len(keys) |->
        [code |-> keys[j],
         name |-> LastNonNa([i \in 1..Len(grp(keys[j])) |-> grp(keys[j])[i].name]),
         vals |-> <<>>]]

\* lines 191-196: the (code, name) pairs of all document tables in document
\* order, grouped by code: the first non-missing name of each code
names_of(doc_dfs) ==
  LET all == Flatten([d \in 1..Len(doc_dfs) |-> doc_dfs[d].rows])
      kept == SelectSeq(all, LAMBDA r : r.code # NA)
      keys == SortBy(Unique([i \in 1..Len(kept) |-> kept[i].code]), StrLess)
      grp(k) == SelectSeq(kept, LAMBDA r : r.code = k)
  IN [j \in 1..Len(keys) |->
        [code |-> keys[j],
         name |-> FirstNonNa([i \in 1..Len(grp(keys[j])) |-> grp(keys[j])[i].name]),
         vals |-> <<>>]]

\* the column labels of left.merge(right, on="kod") for a right table with the
\* one value column doc_col: an overlapping label gets the suffixes _x and _y
merge_columns(columns, doc_col) ==
  IF doc_col \in Range(columns)
  THEN [i \in 1..Len(columns) |-> IF columns[i] = doc_col THEN doc_col \o "_x" ELSE columns[i]]
       \o <<doc_col \o "_y">>
  ELSE columns \o <<doc_col>>

\* the keys of an inner join: those both sides have
merge_keys_inner(left, right) ==
  SortBy(Unique(SelectSeq([i \in 1..Len(left) |-> left[i].code],
                          LAMBDA k : \E j \in 1..Len(right) : right[j].code = k)), StrLess)

\* the keys of how="outer": those of either side, sorted
merge_keys(left, right) ==
  SortBy(Unique([i \in 1..Len(left) |-> left[i].code]
                \o [i \in 1..Len(right) |-> right[i].code]), StrLess)

\* merged.merge(dfi[["kod", doc_col]], on="kod", how="outer"): the keys of both
\* sides sorted, a row for every pair of rows with the key, NaN where a side
\* has none.  raised: the MergeError for suffixes that duplicate a left label.
merge_outer(merged, dfi) ==
  LET doc_col == dfi.columns[3]
      columns == merge_columns(merged.columns, doc_col)
      left_labels == SubSeq(columns, 1, Len(merged.columns))
      nleft == Len(merged.columns) - 2
      keys == merge_keys(merged.rows, dfi.rows)
      L(k) == SelectSeq(merged.rows, LAMBDA r : r.code = k)
      R(k) == SelectSeq(dfi.rows, LAMBDA r : r.code = k)
      pairs(k) ==
        IF Len(L(k)) = 0
        THEN [j \in 1..Len(R(k)) |->
                [code |-> k, name |-> NA,
                 vals |-> [c \in 1..nleft |-> NaN] \o <<R(k)[j].val>>]]
        ELSE IF Len(R(k)) = 0
        THEN [i \in 1..Len(L(k)) |-> [L(k)[i] EXCEPT !.vals = @ \o <<NaN>>]]
        ELSE Flatten([i \in 1..Len(L(k)) |->
                        [j \in 1..Len(R(k)) |->
                           [L(k)[i] EXCEPT !.vals = @ \o <<R(k)[j].val>>]]])
  IN IF Len(Unique(left_labels)) # Len(left_labels)
     THEN [raised |-> TRUE, df |-> NoDf]
     ELSE [raised |-> FALSE,
           df |-> [none |-> FALSE, columns |-> columns,
                   rows |-> Flatten([j \in 1..Len(keys) |-> pairs(keys[j])])]]

RECURSIVE merge_all(_, _)
\* lines 199-205: the document tables merged onto the table in order
merge_all(merged, doc_dfs) ==
  IF Len(doc_dfs) = 0 THEN [raised |-> FALSE, df |-> merged]
  ELSE LET m == merge_outer(merged, Head(doc_dfs))
       IN IF m.raised THEN m ELSE merge_all(m.df, Tail(doc_dfs))

\* lines 190-209: the reconciled table of a non-empty list of document tables
reconcile(doc_dfs) ==
  LET names == [none |-> FALSE, columns |-> <<KOD, NAIMENOVANIE>>, rows |-> names_of(doc_dfs)]
      m == merge_all(names, doc_dfs)
      doc_cols_all == SelectSeq(m.df.columns, LAMBDA c : c \notin {KOD, NAIMENOVANIE})
  IN IF m.raised THEN m
     ELSE [raised |-> FALSE,
           df |-> [m.df EXCEPT !.columns = <<NAIMENOVANIE, KOD>> \o doc_cols_all]]

\* lines 184-188: the table of a run without document tables
no_data_df == add_totals([none |-> FALSE, columns |-> <<NAIMENOVANIE, KOD>>, rows |-> <<>>])

-----------------------------------------------------------------------------
(* The documents of the model, as pdfplumber reads them: [name, text,      *)
(* tables], a raw table [ncols, rows].  build_doc_df and lines 184-213 of  *)
(* process_pdfs are tabulated over them, computed once for each input.     *)

Pad(ncols) == [c \in 1..ncols |-> "x"]

\* a raw table that carries the header and the data rows where the trim rule
\* of the 0-based position pos leaves them
RawTable(pos, header, data) ==
  [ncols |-> Len(header),
   rows |-> [i \in 1..slice_rule(pos)[1] |-> Pad(Len(header))]
            \o <<header>> \o data
            \o [i \in 1..slice_rule(pos)[2] |-> Pad(Len(header))]]

\* the text of a document numbered no: the fallback pattern finds it
TextOf(no) == <<[t |-> "word", s |-> "akt"], [t |-> "num", s |-> no],
                [t |-> "date", s |-> "01.02.2024"]>>

NoNumberText == <<[t |-> "word", s |-> "akt"], [t |-> "num", s |-> "100"]>>

GoodHeader == <<"2", "3", "10">>

JobData ==
  << << <<"a", "1", "10">>, <<"b", "2", "20">> >>,
     << <<"b", "2", "5">>, <<"c", "3", "7">> >>,
     << <<NA, "1", "1 234,56">>, <<"z", "1.0", "x">>, <<"y", "10", "0,5">> >>,
     << <<"q", " ", "3">> >>,
     << <<NA, "10", "">>, <<"w", " abc ", "-2">> >> >>

PdfDoc(name, text, header, data) ==
  [name |-> name, text |-> text, tables |-> <<RawTable(0, header, data)>>]

JobDocs ==
  { PdfDoc("a.pdf", TextOf("100"), GoodHeader, JobData[1]),
    PdfDoc("b.pdf", TextOf("200"), GoodHeader, JobData[2]),
    PdfDoc("c.pdf", TextOf("200"), GoodHeader, JobData[3]),
    PdfDoc("d.pdf", TextOf("100"), GoodHeader, JobData[4]),
    PdfDoc("e.pdf", TextOf("100"), GoodHeader, JobData[5]),
    PdfDoc("no_number.pdf", NoNumberText, GoodHeader, JobData[1]),
    [name |-> "no_table.pdf", text |-> TextOf("300"),
     tables |-> <<[ncols |-> 3, rows |-> [i \in 1..5 |-> Pad(3)]]>>],
    PdfDoc("other_form.pdf", TextOf("300"), <<"2", "3", "9">>, JobData[1]) }

RECURSIVE SeqsUpTo(_, _)
\* the sequences over S of length at most n
SeqsUpTo(S, n) ==
  IF n = 0 THEN {<<>>}
  ELSE LET shorter == SeqsUpTo(S, n - 1)
       IN shorter \cup {Append(q, x) : q \in shorter, x \in S}

\* the longest batch
MaxDocs == 3

build_doc_df_of == [doc \in JobDocs |-> build_doc_df(doc)]

\* the document tables process_pdfs collects (line 182)
DocTables ==
  {build_doc_df_of[doc].df :
     doc \in {d \in JobDocs : ~build_doc_df_of[d].raised /\ ~build_doc_df_of[d].df.none}}

\* lines 198-213: the merged table with its totals, or the exception
final_df_of ==
  [doc_dfs \in SeqsUpTo(DocTables, MaxDocs) |->
     LET m == reconcile(doc_dfs)
     IN IF m.raised THEN m ELSE [raised |-> FALSE, df |-> add_totals(m.df)]]

-----------------------------------------------------------------------------
(* app.py: the shared STATE, the files, and the _worker thread with        *)
(* process_pdfs inlined.  A log line is [k, a, n]: the message kind and    *)
(* its text and number arguments.                                          *)

\* a path is [dir, id, n, name]: id and n stand for the uuid4 of the name
NoPath == [dir |-> "", id |-> 0, n |-> 0, name |-> ""]

\* line 122: the path of the j-th file saved by the upload request r
UploadPath(r, j, name) == [dir |-> "tmp_uploads", id |-> r, n |-> j, name |-> name]

\* lines 140-141: the result file of the worker w
ResultPath(w) == [dir |-> "tmp_results", id |-> w, n |-> 0, name |-> "result.xlsx"]

Line(k, a, n) == [k |-> k, a |-> a, n |-> n]

\* line 130: the numbers of files saved and of files passed over
UploadedLine(n, skipped) == [k |-> "uploaded", a |-> "", n |-> n, skipped |-> skipped]

\* add_log(line)
add_log(st, line) == [st EXCEPT !.logs = Append(@, line)]

\* to_excel_bytes(df): one sheet "result", the column names in the first row
to_excel_bytes(df) == [sheet |-> "result", header |-> df.columns, rows |-> df.rows]

NewWorker(file_paths) ==
  [pc |-> "w136", file_paths |-> file_paths, i |-> 1, doc_dfs |-> <<>>,
   final_df |-> NoDf, reads |-> <<>>, raised |-> FALSE]

\* lines 136 and 166
w_start(w) ==
  /\ workers[w].pc = "w136"
  /\ State' = [State EXCEPT !.logs = @ \o <<Line("start", "", 0),
                                             Line("files", "", Len(workers[w].file_paths))>>]
  /\ workers' = [workers EXCEPT ![w].pc = "pp170"]
  /\ UNCHANGED <<arg, ret, disk, reqs>>

\* the loop left at the first document without a number (break for continue)
after_doc_breaking(me, r) ==
  IF r.raised THEN [me EXCEPT !.pc = "w148", !.raised = TRUE]
  ELSE IF r.docno = None THEN [me EXCEPT !.i = Len(me.file_paths) + 1]
  ELSE IF r.df.none THEN [me EXCEPT !.i = @ + 1]
  ELSE [me EXCEPT !.i = @ + 1, !.doc_dfs = Append(@, r.df)]

\* lines 173-182: the worker's locals after build_doc_df gave r
after_doc(me, r) ==
  IF r.raised THEN [me EXCEPT !.pc = "w148", !.raised = TRUE]
  ELSE IF r.docno = None THEN [me EXCEPT !.i = @ + 1]
  ELSE IF r.df.none THEN [me EXCEPT !.i = @ + 1]
  ELSE [me EXCEPT !.i = @ + 1, !.doc_dfs = Append(@, r.df)]

\* lines 175, 178, 181: the line logged for the result r, if any
doc_lines(r, w) ==
  IF r.raised THEN <<>>
  ELSE IF r.docno = None THEN <<Line("WARN_no_number", "", 0)>>
  ELSE IF r.df.none THEN <<Line("WARN_no_table", r.docno, 0)>>
  ELSE <<Line("OK", r.docno, Len(r.df.rows))>>

\* lines 170-182: one iteration of the loop over file_paths; a file that is
\* gone makes PdfReader raise.  reads lists the documents whose tables were read.
pp_loop(w) ==
  LET me == workers[w]
      path == me.file_paths[me.i]
      r == build_doc_df_of[disk[path]]
  IN /\ me.pc = "pp170"
     /\ me.i <= Len(me.file_paths)
     /\ IF path \notin DOMAIN disk
        THEN /\ State' = add_log(State, Line("processing", path.name, 0))
             /\ workers' = [workers EXCEPT ![w].pc = "w148", ![w].raised = TRUE]
        ELSE /\ State' = [State EXCEPT !.logs = @ \o <<Line("processing", path.name, 0)>>
                                                  \o doc_lines(r, w)]
             /\ workers' = [workers EXCEPT ![w] =
                              [after_doc(me, r) EXCEPT
                                 !.reads = IF r.tables_read THEN Append(@, me.i) ELSE @]]
     /\ UNCHANGED <<arg, ret, disk, reqs>>

\* lines 184-213: after the loop
pp_finish(w) ==
  LET me == workers[w]
      m == final_df_of[me.doc_dfs]
      final_df == m.df
  IN /\ me.pc = "pp170"
     /\ me.i > Len(me.file_paths)
     /\ IF Len(me.doc_dfs) = 0
        THEN /\ State' = add_log(State, Line("no_data", "", 0))
             /\ workers' = [workers EXCEPT ![w].pc = "w139", ![w].final_df = no_data_df]
        ELSE IF m.raised
        THEN /\ State' = State
             /\ workers' = [workers EXCEPT ![w].pc = "w148", ![w].raised = TRUE]
        ELSE /\ State' = add_log(State, Line("ready", "", Len(final_df.rows)))
             /\ workers' = [workers EXCEPT ![w].pc = "w139", ![w].final_df = final_df]
     /\ UNCHANGED <<arg, ret, disk, reqs>>

\* lines 139-146: the table encoded and written, STATE["result_file"] set and
\* the line logged, or an exception of the encoder or the file system
w_write(w) ==
  /\ workers[w].pc = "w139"
  /\ \E ok \in BOOLEAN :
       IF ok
       THEN /\ disk' = (ResultPath(w) :> to_excel_bytes(workers[w].final_df)) @@ disk
            /\ State' = add_log([State EXCEPT !.result_file = ResultPath(w)],
                                Line("excel_ready", "", 0))
            /\ workers' = [workers EXCEPT ![w].pc = "w150"]
       ELSE /\ disk' = disk
            /\ State' = State
            /\ workers' = [workers EXCEPT ![w].pc = "w148", ![w].raised = TRUE]
  /\ UNCHANGED <<arg, ret, reqs>>

\* the handler leaving _worker without the finally block
w_except_returning(w) ==
  /\ workers[w].pc = "w148"
  /\ State' = add_log(State, Line("ERROR", "", 0))
  /\ workers' = [workers EXCEPT ![w].pc = "done"]
  /\ UNCHANGED <<arg, ret, disk, reqs>>

\* lines 147-148
w_except(w) ==
  /\ workers[w].pc = "w148"
  /\ State' = add_log(State, Line("ERROR", "", 0))
  /\ workers' = [workers EXCEPT ![w].pc = "w150"]
  /\ UNCHANGED <<arg, ret, disk, reqs>>

\* lines 149-150
w_finally_running(w) ==
  /\ workers[w].pc = "w150"
  /\ State' = [State EXCEPT !.running = FALSE]
  /\ workers' = [workers EXCEPT ![w].pc = "w151"]
  /\ UNCHANGED <<arg, ret, disk, reqs>>

\* line 151
w_finally_log(w) ==
  /\ workers[w].pc = "w151"
  /\ State' = add_log(State, Line("finished", "", 0))
  /\ workers' = [workers EXCEPT ![w].pc = "done"]
  /\ UNCHANGED <<arg, ret, disk, reqs>>

_worker(w) ==
  /\ w \in DOMAIN workers
  /\ \/ w_start(w)
     \/ pp_loop(w)
     \/ pp_finish(w)
     \/ w_write(w)
     \/ w_except(w)
     \/ w_finally_running(w)
     \/ w_finally_log(w)

-----------------------------------------------------------------------------
(* app.py: the request handlers.  The server is threaded: a request is a   *)
(* thread r with a program counter named after the source line it is at.   *)
(* A step reads shared state at most once, at its start: the test of       *)
(* STATE["running"] and the writes that follow it are separate steps, and  *)
(* writes that follow one another without a read between them are one      *)
(* step.  A request is [op, pc, files, saved, status]: files the uploaded  *)
(* files [name, doc] of an upload, saved the files start() read, status    *)
(* the response code.  A request that was answered keeps its response      *)
(* only.                                                                   *)

Request(op, pc, files) == [op |-> op, pc |-> pc, files |-> files, saved |-> <<>>, status |-> 0]

Respond(r, status) ==
  [reqs EXCEPT ![r] = [op |-> reqs[r].op, pc |-> "done", files |-> <<>>, saved |-> <<>>,
                       status |-> status]]

IsPdf(name) == Len(name) >= 4 /\ SubSeq(name, Len(name) - 3, Len(name)) = ".pdf"

\* lines 103-108
upload_check(r) ==
  /\ reqs[r].pc = "u103"
  /\ reqs' = IF State.running THEN Respond(r, 409)
             ELSE IF Len(reqs[r].files) = 0 THEN Respond(r, 400)
             ELSE [reqs EXCEPT ![r].pc = "c73"]
  /\ UNCHANGED <<arg, ret, State, disk, workers>>

\* lines 73-86, cleanup_all: the uploaded files and the result file removed
cleanup_files(r) ==
  /\ reqs[r].pc = "c73"
  /\ disk' = [p \in DOMAIN disk \ (Range(State.uploaded_files) \cup {State.result_file}) |-> disk[p]]
  /\ reqs' = [reqs EXCEPT ![r].pc = "c89"]
  /\ UNCHANGED <<arg, ret, State, workers>>

\* lines 89-93, and the return to upload() or reset()
cleanup_state(r) ==
  /\ reqs[r].pc = "c89"
  /\ State' = [State EXCEPT !.uploaded_files = <<>>, !.result_file = NoPath,
                            !.logs = <<>>, !.job_id = 0, !.running = FALSE]
  /\ reqs' = IF reqs[r].op = "upload" THEN [reqs EXCEPT ![r].pc = "u113"] ELSE Respond(r, 200)
  /\ UNCHANGED <<arg, ret, disk, workers>>

\* lines 113-131: the PDF files saved, STATE["uploaded_files"] set, the line logged
upload_save(r) ==
  LET pdfs == SelectSeq(reqs[r].files, LAMBDA f : IsPdf(f.name))
      saved == [j \in 1..Len(pdfs) |-> UploadPath(r, j, pdfs[j].name)]
  IN /\ reqs[r].pc = "u113"
     /\ disk' = [p \in Range(saved) |-> pdfs[p.n].doc] @@ disk
     /\ State' = IF Len(saved) = 0 THEN State
                 ELSE add_log([State EXCEPT !.uploaded_files = saved],
                              UploadedLine(Len(saved), Len(reqs[r].files) - Len(pdfs)))
     /\ reqs' = Respond(r, IF Len(saved) = 0 THEN 400 ELSE 200)
     /\ UNCHANGED <<arg, ret, workers>>

\* lines 156-157
start_check(r) ==
  /\ reqs[r].pc = "s156"
  /\ reqs' = IF State.running THEN Respond(r, 409) ELSE [reqs EXCEPT ![r].pc = "s159"]
  /\ UNCHANGED <<arg, ret, State, disk, workers>>

\* lines 159-161
start_files(r) ==
  /\ reqs[r].pc = "s159"
  /\ reqs' = IF Len(State.uploaded_files) = 0 THEN Respond(r, 400)
             ELSE [reqs EXCEPT ![r].pc = "s163", ![r].saved = State.uploaded_files]
  /\ UNCHANGED <<arg, ret, State, disk, workers>>

\* lines 163-170: the job marked running and logged, the worker thread
\* started; the worker has the number of its request
start_job(r) ==
  /\ reqs[r].pc = "s163"
  /\ State' = add_log([State EXCEPT !.running = TRUE, !.result_file = NoPath, !.job_id = r],
                      Line("job_started", "", 0))
  /\ workers' = (r :> NewWorker(reqs[r].saved)) @@ workers
  /\ reqs' = Respond(r, 200)
  /\ UNCHANGED <<arg, ret, disk>>

\* lines 203-205
reset_check(r) ==
  /\ reqs[r].pc = "r203"
  /\ reqs' = IF State.running THEN Respond(r, 409) ELSE [reqs EXCEPT ![r].pc = "c73"]
  /\ UNCHANGED <<arg, ret, State, disk, workers>>

handle(r) ==
  /\ r \in DOMAIN reqs
  /\ \/ upload_check(r)
     \/ cleanup_files(r)
     \/ cleanup_state(r)
     \/ upload_save(r)
     \/ start_check(r)
     \/ start_files(r)
     \/ start_job(r)
     \/ reset_check(r)

-----------------------------------------------------------------------------
(* One run of _worker: the state start() leaves, for every batch of        *)
(* documents of a small universe.                                          *)

\* the state after upload() and start() of the batch, the worker 1 created
JobInit ==
  \E batch \in SeqsUpTo(JobDocs, MaxDocs) :
    LET paths == [j \in 1..Len(batch) |-> UploadPath(1, j, batch[j].name)]
    IN /\ disk = [p \in Range(paths) |-> batch[p.n]]
       /\ State = [running |-> TRUE,
                   logs |-> <<UploadedLine(Len(batch), 0), Line("job_started", "", 0)>>,
                   result_file |-> NoPath, job_id |-> 1, uploaded_files |-> paths]
       /\ workers = (1 :> NewWorker(paths))
       /\ reqs = <<>>
       /\ arg = <<>>
       /\ ret = <<>>

JobNext ==
  \/ w_start(1)
  \/ pp_loop(1)
  \/ pp_finish(1)
  \/ w_write(1)
  \/ w_except(1)
  \/ w_finally_running(1)
  \/ w_finally_log(1)

SpecJob == JobInit /\ [][JobNext]_vars

-----------------------------------------------------------------------------
(* The server: requests arrive while others are handled and workers run.   *)
(* The handlers index, status and download write nothing and are left out, *)
(* as is shutdown, which ends the server.                                  *)

MaxReqs == 3

DocA == PdfDoc("a.pdf", TextOf("100"), GoodHeader, JobData[1])

DocOtherForm == PdfDoc("other_form.pdf", TextOf("300"), <<"2", "3", "9">>, JobData[1])

\* what a client posts to /upload
AppUploads ==
  { <<[name |-> "a.pdf", doc |-> DocA]>>,
    <<[name |-> "other_form.pdf", doc |-> DocOtherForm]>>,
    <<[name |-> "notes.txt", doc |-> DocA]>>,
    <<>> }

AppInit ==
  /\ State = [running |-> FALSE, logs |-> <<>>, result_file |-> NoPath, job_id |-> 0,
              uploaded_files |-> <<>>]
  /\ disk = <<>>
  /\ reqs = <<>>
  /\ workers = <<>>
  /\ arg = <<>>
  /\ ret = <<>>

\* a request arrives
arrive ==
  /\ Len(reqs) < MaxReqs
  /\ \/ \E files \in AppUploads : reqs' = Append(reqs, Request("upload", "u103", files))
     \/ reqs' = Append(reqs, Request("start", "s156", <<>>))
     \/ reqs' = Append(reqs, Request("reset", "r203", <<>>))
  /\ UNCHANGED <<arg, ret, State, disk, workers>>

AppNext ==
  \/ arrive
  \/ \E r \in 1..MaxReqs : handle(r)
  \/ \E w \in 1..MaxReqs : _worker(w)

SpecApp == AppInit /\ [][AppNext]_vars /\ \A w \in 1..MaxReqs : WF_vars(_worker(w))

-----------------------------------------------------------------------------
(* The table selector and the document table builder on their own: the     *)
(* input drawn in arg, the result left in ret.  The other variables idle.  *)

MaxTables == 3

MaxTblRows == 8

MaxRows == 2

Idle ==
  /\ State = [running |-> FALSE, logs |-> <<>>, result_file |-> NoPath, job_id |-> 0,
              uploaded_files |-> <<>>]
  /\ disk = <<>>
  /\ reqs = <<>>
  /\ workers = <<>>

\* a raw table of the given shape; the cells of row i name the row
ShapedTable(nrows, ncols) ==
  [ncols |-> ncols,
   rows |-> [i \in 1..nrows |-> [c \in 1..ncols |-> "r" \o Ch("0123456789", i)]]]

\* no rows, or too few, or enough; too narrow or wide enough
SelTables == {ShapedTable(n, c) : n \in {0} \cup 4..MaxTblRows, c \in {2, 3}}

SelectInit ==
  /\ arg \in SeqsUpTo(SelTables, MaxTables)
  /\ ret = [done |-> FALSE]
  /\ Idle

choose_table ==
  /\ ~ret.done
  /\ ret' = [done |-> TRUE, df |-> _choose_and_clean_table(arg)]
  /\ UNCHANGED <<arg, State, disk, reqs, workers>>

SelectNext == choose_table

SpecSelect == SelectInit /\ [][SelectNext]_vars

LabelCells == {NA, " b  c "}

CodeCells == {"1", "1.0 ", "2", " "}

ValueCells == {"5", "1 234,56", "x"}

\* the primary pattern finds the number 20240001
LabelText == <<[t |-> "label", s |-> "nomer dokumenta"], [t |-> "word", s |-> "akt"],
               [t |-> "num", s |-> "20240001"]>>

DocRows == LabelCells \X CodeCells \X ValueCells

\* a document of the data rows d: the required columns alone, or after a
\* column of row numbers, or after a second column "2"
DocInput(form, d) ==
  IF form = "wide"
  THEN PdfDoc("doc.pdf", LabelText, <<"1", "2", "3", "10">>,
              [i \in 1..Len(d) |-> <<"n">> \o d[i]])
  ELSE IF form = "twice"
  THEN PdfDoc("doc.pdf", TextOf("100"), <<"2", "2", "3", "10">>,
              [i \in 1..Len(d) |-> <<"n">> \o d[i]])
  ELSE PdfDoc("doc.pdf", TextOf("100"), GoodHeader, [i \in 1..Len(d) |-> d[i]])

DocInit ==
  /\ \E form \in {"plain", "wide", "twice"}, n \in 0..MaxRows :
       \E d \in [1..n -> DocRows] : arg = DocInput(form, d)
  /\ ret = [done |-> FALSE]
  /\ Idle

build_table ==
  /\ ~ret.done
  /\ ret' = [done |-> TRUE, val |-> build_doc_df(arg)]
  /\ UNCHANGED <<arg, State, disk, reqs, workers>>

DocNext == build_table

SpecDoc == DocInit /\ [][DocNext]_vars

CodesOf(rows) == {rows[i].code : i \in 1..Len(rows)}

\* the candidates of the selector: big enough, and two rows or more left by
\* the trim rule of the position
Kept(tables, i) == Len(tables[i].rows) - (IF i - 1 = 2 THEN 1 ELSE 3) - 2

Qualifies(tables, i) ==
  /\ Len(tables[i].rows) > 5
  /\ tables[i].ncols > 2
  /\ Kept(tables, i) >= 2

\* C5 as stated: a table the selector returns has at least 2 data rows
C5_Original == ret.done /\ ~ret.df.none => Len(ret.df.rows) >= 2

\* C5 as amended: the selector returns the first table in original order
\* that is big enough and keeps at least 2 rows after the positional trim,
\* the first of them the header: at least 1 data row; none such, not found
C5_TwoRowsAfterTrim ==
  ret.done =>
    LET ok == {i \in 1..Len(arg) : Qualifies(arg, i)}
    IN IF ok = {} THEN ret.df.none
       ELSE LET i == CHOOSE k \in ok : \A j \in ok : k <= j
                start == IF i - 1 = 2 THEN 1 ELSE 3
            IN /\ ~ret.df.none
               /\ ret.df.columns = arg[i].rows[start + 1]
               /\ <<ret.df.columns>> \o ret.df.rows
                    = SubSeq(arg[i].rows, start + 1, Len(arg[i].rows) - 2)
               /\ Len(ret.df.rows) = Kept(arg, i) - 1
               /\ Len(ret.df.rows) >= 1

\* the first candidate lost to the trim, the next returned with one data row
C5_Witness ==
  /\ ret.done
  /\ ~ret.df.none
  /\ Len(ret.df.rows) = 1
  /\ Len(arg) >= 2
  /\ Len(arg[1].rows) = 6
  /\ arg[1].ncols = 3
  /\ ret.df.columns = arg[2].rows[4]

\* the data rows of the selected table and the places of its three columns
Src == extract_table(arg)

Col(c) == CHOOSE i \in 1..Len(Src.columns) : Src.columns[i] = c

SrcWithCode(code) == SelectSeq(Src.rows, LAMBDA r : clean_code(r[Col("3")]) = code)

\* C6: one row per distinct non-missing cleaned code, its value the sum of
\* the values of the input rows with the code, missing or unparseable as 0
C6_OneRowPerCode ==
  ret.done /\ ~ret.val.raised /\ ~ret.val.df.none =>
    LET out == ret.val.df.rows
        codes == {clean_code(Src.rows[i][Col("3")]) : i \in 1..Len(Src.rows)} \ {NA}
    IN /\ CodesOf(out) = codes
       /\ Len(out) = Cardinality(codes)
       /\ \A j \in 1..Len(out) :
            LET of == SrcWithCode(out[j].code)
            IN out[j].val
                 = Num(SumSeq([i \in 1..Len(of) |->
                                 NumOrZero(to_number(clean_text(of[i][Col("10")])))]))

\* two rows whose raw codes differ share a cleaned code, one value unparseable
C6_Witness ==
  /\ ret.done
  /\ ~ret.val.raised
  /\ ~ret.val.df.none
  /\ Len(ret.val.df.rows) = 1
  /\ Len(Src.rows) = 2
  /\ Src.rows[1][Col("3")] # Src.rows[2][Col("3")]
  /\ to_number(clean_text(Src.rows[1][Col("10")])).nan
  /\ ret.val.df.rows[1].val = Num(123456)

-----------------------------------------------------------------------------
(* The claims about one run *)

W == workers[1]

\* the documents of the run, in input order
Batch == [j \in 1..Len(W.file_paths) |-> disk[W.file_paths[j]]]

NoNumber(doc) == extract_doc_number(doc.text) = None

NoTable(doc) == ~NoNumber(doc) /\ extract_table(doc).none

Skipped(doc) == NoNumber(doc) \/ NoTable(doc)

\* the selected table lacks one of the required columns
LacksColumn(doc) ==
  /\ ~Skipped(doc)
  /\ \E c \in Range(required) : c \notin Range(extract_table(doc).columns)

\* process_pdfs returned a table
Returned == ~W.final_df.none

HasTotals(df) == ~df.none /\ Len(df.columns) > 0 /\ df.columns[Len(df.columns)] = ITOGO_STROKA

\* the rows of the reconciled table in a result of add_totals
DataRows(df) == IF HasTotals(df) THEN SubSeq(df.rows, 1, Len(df.rows) - 1) ELSE df.rows

RECURSIVE tables_of(_)
\* lines 168-182 as a function of the documents: the tables of the accepted
\* ones in order, or raised
tables_of(docs) ==
  IF Len(docs) = 0 THEN [raised |-> FALSE, dfs |-> <<>>]
  ELSE LET r == build_doc_df_of[Head(docs)]
           rest == tables_of(Tail(docs))
       IN IF r.raised THEN [raised |-> TRUE, dfs |-> <<>>]
          ELSE IF r.docno = None \/ r.df.none THEN rest
          ELSE [rest EXCEPT !.dfs = <<r.df>> \o @]

\* process_pdfs as a function of the documents: the table it returns, or raised
process_pdfs(docs) ==
  LET t == tables_of(docs)
      m == final_df_of[t.dfs]
  IN IF t.raised THEN [raised |-> TRUE, df |-> NoDf]
     ELSE IF Len(t.dfs) = 0 THEN [raised |-> FALSE, df |-> no_data_df]
     ELSE IF m.raised THEN [raised |-> TRUE, df |-> NoDf]
     ELSE [raised |-> FALSE, df |-> m.df]

\* process_pdfs has ended, by return or by exception
Ended == W.pc \notin {"w136", "pp170"}

Accepted == {j \in 1..Len(Batch) : ~Skipped(Batch[j])}

DocCodes(doc) == CodesOf(build_doc_df_of[doc].df.rows)

\* C2: the row codes of the reconciled table are exactly the codes of the
\* tables of the accepted documents, each code in one row
C2_RowCodesAreUnion ==
  Returned =>
    LET rows == DataRows(W.final_df)
    IN /\ CodesOf(rows) = UNION {DocCodes(Batch[j]) : j \in Accepted}
       /\ Cardinality(CodesOf(rows)) = Len(rows)
       /\ NA \notin CodesOf(rows)

C2_Witness ==
  /\ Returned
  /\ \E j, k \in Accepted :
       /\ DocCodes(Batch[j]) \ DocCodes(Batch[k]) # {}
       /\ DocCodes(Batch[k]) \ DocCodes(Batch[j]) # {}
  /\ \E j \in 1..Len(Batch) : Skipped(Batch[j])

\* C3: a data row's total is the sum of its document cells, missing as 0; the
\* total cell of the totals row is the sum of the row totals; the document
\* cells are those of the table passed to add_totals
C3_TotalsAreSums ==
  Returned /\ Len(W.doc_dfs) > 0 =>
    LET pre == reconcile(W.doc_dfs).df
        post == W.final_df
        ncol == Len(pre.columns) - 2
        n == Len(DataRows(post))
        cells(r) == [c \in 1..ncol |-> NumOrZero(r.vals[c])]
    IN /\ n = Len(pre.rows)
       /\ HasTotals(post) <=> n > 0
       /\ \A i \in 1..n :
            \E r \in Range(pre.rows) :
              /\ r.code = post.rows[i].code
              /\ SubSeq(post.rows[i].vals, 1, ncol) = r.vals
              /\ HasTotals(post) => post.rows[i].vals[ncol + 1] = Num(SumSeq(cells(r)))
       /\ HasTotals(post) =>
            post.rows[n + 1].vals[ncol + 1]
              = Num(SumSeq([i \in 1..n |-> post.rows[i].vals[ncol + 1].v]))

\* the end-to-end scenario: documents 100:{1:10, 2:20} and 200:{2:5, 3:7}
C3_Witness ==
  /\ Returned
  /\ W.final_df.columns = <<NAIMENOVANIE, KOD, "100", "200", ITOGO_STROKA>>
  /\ W.final_df.rows =
       << [name |-> "a", code |-> "1", vals |-> <<Num(1000), NaN, Num(1000)>>],
          [name |-> "b", code |-> "2", vals |-> <<Num(2000), Num(500), Num(2500)>>],
          [name |-> "c", code |-> "3", vals |-> <<NaN, Num(700), Num(700)>>],
          [name |-> ITOGO_STOLBEC, code |-> NA, vals |-> <<Num(3000), Num(1200), Num(4200)>>] >>

EmptyFrame == [none |-> FALSE, columns |-> <<NAIMENOVANIE, KOD>>, rows |-> <<>>]

NoEligible == \A j \in 1..Len(Batch) : Skipped(Batch[j])

\* C4 as stated: with no eligible document the result carries the total
\* column and exactly one totals row, of total 0
C4_Original ==
  NoEligible /\ Ended =>
    /\ HasTotals(W.final_df)
    /\ Len(W.final_df.rows) = 1
    /\ W.final_df.rows[1].name = ITOGO_STOLBEC
    /\ W.final_df.rows[1].vals = <<Num(0)>>

\* C4 as amended: with no eligible document process_pdfs returns, and what it
\* returns is the empty label/code table as add_totals leaves it: no total
\* column and no row
C4_EmptyBatchGivesEmptyTable ==
  NoEligible /\ Ended =>
    /\ W.final_df = EmptyFrame
    /\ \E i \in 1..Len(State.logs) : State.logs[i] = Line("no_data", "", 0)
    /\ ~W.raised => State.logs[Len(State.logs)].k # "ERROR"

C4_Witness ==
  /\ NoEligible
  /\ Len(Batch) >= 2
  /\ W.pc = "done"
  /\ ~W.raised
  /\ ResultPath(1) \in DOMAIN disk
  /\ disk[ResultPath(1)].header = <<NAIMENOVANIE, KOD>>
  /\ disk[ResultPath(1)].rows = <<>>

\* the lines process_pdfs logs for one document
ExpectedLines(doc) ==
  <<Line("processing", doc.name, 0)>>
  \o (IF NoNumber(doc) THEN <<Line("WARN_no_number", "", 0)>>
      ELSE IF NoTable(doc) THEN <<Line("WARN_no_table", extract_doc_number(doc.text), 0)>>
      ELSE IF build_doc_df_of[doc].raised THEN <<>>
      ELSE <<Line("OK", extract_doc_number(doc.text), Len(build_doc_df_of[doc].df.rows))>>)

\* the documents the loop has begun: those before i, and the one that raised
Begun == IF W.raised /\ W.final_df.none /\ W.i <= Len(Batch) THEN W.i ELSE W.i - 1

DocLog == SelectSeq(State.logs, LAMBDA l : l.k \in {"processing", "WARN_no_number", "WARN_no_table", "OK"})

Drop(q, k) == SubSeq(q, 1, k - 1) \o SubSeq(q, k + 1, Len(q))

\* C7: a document without number or without table is skipped: one warning
\* line for it, the later documents processed in order, the result that of the
\* batch without it, its tables not read when it has no number
C7_SkippedDocumentsLeaveNoTrace ==
  /\ W.pc # "w136" => DocLog = Flatten([j \in 1..Begun |-> ExpectedLines(Batch[j])])
  /\ \A j \in Range(W.reads) : ~NoNumber(Batch[j])
  /\ Ended =>
       \A k \in 1..Len(Batch) :
         Skipped(Batch[k]) =>
           LET q == process_pdfs(Drop(Batch, k))
           IN /\ q.raised = W.final_df.none
              /\ q.df = W.final_df
  /\ Returned => Len(W.doc_dfs) = Cardinality(Accepted)

C7_Witness ==
  /\ W.pc = "done"
  /\ ~W.raised
  /\ Len(Batch) = 3
  /\ NoNumber(Batch[1])
  /\ ~Skipped(Batch[2])
  /\ NoTable(Batch[3])
  /\ Len(DataRows(W.final_df)) = 2

\* the first document whose selected table lacks a required column
FirstLacking == CHOOSE k \in 1..Len(Batch) :
                  LacksColumn(Batch[k]) /\ \A j \in 1..(k - 1) : ~LacksColumn(Batch[j])

\* C8: a selected table without a required column aborts the batch: no table
\* is returned whatever was built before, no later document is processed, no
\* result file appears, and the run logs ERROR
C8_MissingColumnAbortsBatch ==
  (\E k \in 1..Len(Batch) : LacksColumn(Batch[k])) =>
    /\ W.final_df.none
    /\ W.i <= FirstLacking
    /\ Len(SelectSeq(DocLog, LAMBDA l : l.k = "processing")) <= FirstLacking
    /\ Len(W.doc_dfs) <= Cardinality({j \in Accepted : j < FirstLacking})
    /\ State.result_file = NoPath
    /\ ResultPath(1) \notin DOMAIN disk
    /\ W.pc \in {"w150", "w151", "done"} =>
         /\ W.raised
         /\ \E i \in 1..Len(State.logs) : State.logs[i].k = "ERROR"
         /\ \A i \in 1..Len(State.logs) : State.logs[i].k \notin {"ready", "excel_ready"}

C8_Witness ==
  /\ W.pc = "done"
  /\ \E k \in 2..(Len(Batch) - 1) : LacksColumn(Batch[k])
  /\ W.i = FirstLacking
  /\ Len(W.doc_dfs) >= 1
  /\ State.logs[Len(State.logs) - 1].k = "ERROR"

\* the cleaned rows of the accepted documents in the order they are processed
ScannedRows ==
  Flatten([j \in 1..Len(Batch) |->
             IF j \in Accepted THEN cleaned_rows(extract_table(Batch[j])) ELSE <<>>])

LabelsOf(rows, code) ==
  LET of == SelectSeq(rows, LAMBDA r : r.code = code)
  IN [i \in 1..Len(of) |-> of[i].name]

\* C9: the label of a code is the first non-missing label of the code in the
\* scan of the accepted documents, missing only if all are
C9_FirstLabelWins ==
  Returned =>
    \A r \in Range(DataRows(W.final_df)) :
      LET labels == LabelsOf(ScannedRows, r.code)
      IN /\ Len(labels) > 0
         /\ r.name = (IF \E i \in 1..Len(labels) : labels[i] # NA
                       THEN labels[CHOOSE i \in 1..Len(labels) :
                                     labels[i] # NA /\ \A j \in 1..(i - 1) : labels[j] = NA]
                       ELSE NA)

\* a label taken from a later document because the earlier one has none, and
\* a code whose documents disagree on the label
C9_Witness ==
  /\ Returned
  /\ \E r \in Range(DataRows(W.final_df)) :
       /\ LabelsOf(ScannedRows, r.code)[1] = NA
       /\ r.name # NA
       /\ \E j \in Accepted :
            LET own == LabelsOf(cleaned_rows(extract_table(Batch[j])), r.code)
            IN Len(own) > 0 /\ \A i \in 1..Len(own) : own[i] = NA
  /\ \E r \in Range(DataRows(W.final_df)) :
       Cardinality(Range(LabelsOf(ScannedRows, r.code)) \ {NA}) >= 2

-----------------------------------------------------------------------------
(* Claims about the server: requests handled concurrently, and the jobs    *)
(* they start.                                                             *)

\* the workers inside process_pdfs
InProcessPdfs == {w \in DOMAIN workers : workers[w].pc = "pp170"}

\* C1: at most one processing run executes at a time: in no reachable state
\* are two _worker threads inside process_pdfs.
C1_AtMostOneRun == Cardinality(InProcessPdfs) <= 1

Finished == Line("finished", "", 0)

\* a path in STATE["result_file"] is the result of a run that did not raise
ResultOfSuccess ==
  /\ \A w \in DOMAIN workers : workers[w].raised => State.result_file # ResultPath(w)
  /\ State.result_file # NoPath =>
       \E w \in DOMAIN workers :
         /\ State.result_file = ResultPath(w)
         /\ workers[w].pc \in {"w150", "w151", "done"}
         /\ ~workers[w].raised

\* the steps by which a job ends, and the step that sets STATE["result_file"]
EndsThroughFinally ==
  /\ \A w \in DOMAIN workers :
       /\ (workers[w].pc # "w151" /\ workers'[w].pc = "w151") =>
            workers[w].pc = "w150" /\ ~State'.running
       /\ (workers[w].pc # "done" /\ workers'[w].pc = "done") =>
            workers[w].pc = "w151" /\ State'.logs = Append(State.logs, Finished)
       /\ (workers[w].pc # "w150" /\ workers'[w].pc = "w150" /\ workers[w].raised) =>
            State'.logs = Append(State.logs, Line("ERROR", "", 0))
  /\ (State'.result_file # State.result_file /\ State'.result_file # NoPath) =>
       \E w \in DOMAIN workers :
         /\ workers[w].pc = "w139"
         /\ ~workers'[w].raised
         /\ State'.result_file = ResultPath(w)

\* C10: every job started by /start eventually finishes, whether the
\* pipeline and the encoding succeed or raise: its worker sets
\* STATE["running"] to False, then appends the completion line, and is done;
\* STATE["result_file"] is set to a path only by a run that did not raise,
\* never by one that logged ERROR.
C10_JobsFinish ==
  /\ []ResultOfSuccess
  /\ [][EndsThroughFinally]_vars
  /\ \A w \in 1..MaxReqs :
       (w \in DOMAIN workers) ~> (w \in DOMAIN workers /\ workers[w].pc = "done")

\* one job that raised and a later one that succeeded, both finished
C10_Witness ==
  \E w, v \in DOMAIN workers :
    /\ workers[w].pc = "done" /\ workers[w].raised
    /\ workers[v].pc = "done" /\ ~workers[v].raised
    /\ \E k \in 1..Len(State.logs) : State.logs[k] = Line("ERROR", "", 0)
    /\ State.logs[Len(State.logs)] = Finished
    /\ ~State.running
    /\ State.result_file = ResultPath(v)

=============================================================================
